---------------------------- MODULE Spec2Model ----------------------------
(***************************************************************************)
(* Field classification and masking of cloudresty/golog                    *)
(* (security_optimized.go): the pattern registry built once, the two       *)
(* cached classifiers isPIIFieldFast / isSensitiveFieldFast, the recursive *)
(* masker maskSensitiveFieldsFast and ClearFieldCache, run by concurrent   *)
(* callers that share the process-wide cache, its RWMutex and the Once.    *)
(*                                                                         *)
(* A string is a sequence of runes, each rune a one-character string.      *)
(***************************************************************************)
EXTENDS Integers, Sequences, FiniteSets, TLC

(***************************************************************************)
(* Strings (package strings of the Go standard library, as the code uses   *)
(* it).                                                                    *)
(***************************************************************************)
LowerLetters == <<"a","b","c","d","e","f","g","h","i","j","k","l","m",
                  "n","o","p","q","r","s","t","u","v","w","x","y","z">>

UpperLetters == <<"A","B","C","D","E","F","G","H","I","J","K","L","M",
                  "N","O","P","Q","R","S","T","U","V","W","X","Y","Z">>

\* U+0131, LATIN SMALL LETTER DOTLESS I: a lowercase letter outside ASCII.
\* unicode.ToLower leaves it alone, unicode.ToUpper maps it to "I", and its
\* UTF-8 encoding is two bytes long.
DotlessI == "U+0131"

IndexOf(letters, c) == CHOOSE i \in 1..Len(letters) : letters[i] = c

IsIn(letters, c) == \E i \in 1..Len(letters) : letters[i] = c

ToLowerRune(c) ==
  IF IsIn(UpperLetters, c) THEN LowerLetters[IndexOf(UpperLetters, c)] ELSE c

ToUpperRune(c) ==
  IF IsIn(LowerLetters, c) THEN UpperLetters[IndexOf(LowerLetters, c)]
  ELSE IF c = DotlessI THEN "I" ELSE c

\* ToLower without the fold: the name compared as it was given.
ToLower_Unfolded(s) == s

\* strings.ToLower / strings.ToUpper: rune by rune.
ToLower(s) == [i \in 1..Len(s) |-> ToLowerRune(s[i])]

ToUpper(s) == [i \in 1..Len(s) |-> ToUpperRune(s[i])]

\* Bytes of the UTF-8 encoding of one rune.
RuneLen(c) == IF c = DotlessI THEN 2 ELSE 1

RECURSIVE len(_)
\* Go's len(string): the length in bytes.
len(s) == IF s = <<>> THEN 0 ELSE RuneLen(Head(s)) + len(Tail(s))

HasPrefix(s, prefix) ==
  /\ Len(prefix) <= Len(s)
  /\ SubSeq(s, 1, Len(prefix)) = prefix

HasSuffix(s, suffix) ==
  /\ Len(suffix) <= Len(s)
  /\ SubSeq(s, Len(s) - Len(suffix) + 1, Len(s)) = suffix

Contains(s, substr) ==
  \E i \in 0..(Len(s) - Len(substr)) : SubSeq(s, i + 1, i + Len(substr)) = substr

(***************************************************************************)
(* Pattern registry.                                                       *)
(***************************************************************************)
defaultSensitiveFields == <<
    <<"p","a","s","s","w","o","r","d">>, <<"p","w","d">>, <<"p","a","s","s">>,
    <<"s","e","c","r","e","t">>, <<"k","e","y">>, <<"t","o","k","e","n">>,
    <<"a","u","t","h">>, <<"c","r","e","d","e","n","t","i","a","l">>, <<"c","r","e","d">>,
    <<"p","r","i","v","a","t","e">>, <<"c","o","n","f","i","d","e","n","t","i","a","l">>, <<"s","e","n","s","i","t","i","v","e">>,
    <<"a","p","i","_","k","e","y">>, <<"a","p","i","k","e","y">>, <<"a","c","c","e","s","s","_","t","o","k","e","n">>,
    <<"r","e","f","r","e","s","h","_","t","o","k","e","n">>, <<"j","w","t">>, <<"s","e","s","s","i","o","n">>,
    <<"c","o","o","k","i","e">>, <<"a","u","t","h","o","r","i","z","a","t","i","o","n">>, <<"b","e","a","r","e","r">>,
    <<"o","a","u","t","h">>, <<"c","l","i","e","n","t","_","s","e","c","r","e","t">>, <<"p","r","i","v","a","t","e","_","k","e","y">>,
    <<"p","a","s","s","p","h","r","a","s","e">>, <<"p","i","n">>, <<"c","o","d","e">>
  >>

defaultPIIFields == <<
    <<"e","m","a","i","l">>, <<"m","a","i","l">>, <<"e","_","m","a","i","l">>,
    <<"e","m","a","i","l","_","a","d","d","r","e","s","s">>, <<"e","m","a","i","l","a","d","d","r","e","s","s">>, <<"p","h","o","n","e">>,
    <<"m","o","b","i","l","e">>, <<"t","e","l","e","p","h","o","n","e">>, <<"p","h","o","n","e","_","n","u","m","b","e","r">>,
    <<"p","h","o","n","e","n","u","m","b","e","r">>, <<"t","e","l">>, <<"s","s","n">>,
    <<"s","o","c","i","a","l","_","s","e","c","u","r","i","t","y">>, <<"s","o","c","i","a","l","_","s","e","c","u","r","i","t","y","_","n","u","m","b","e","r">>, <<"t","a","x","_","i","d">>,
    <<"c","r","e","d","i","t","_","c","a","r","d">>, <<"c","r","e","d","i","t","c","a","r","d">>, <<"c","a","r","d","_","n","u","m","b","e","r">>,
    <<"c","a","r","d","n","u","m","b","e","r">>, <<"c","c","n">>, <<"p","a","s","s","p","o","r","t">>,
    <<"p","a","s","s","p","o","r","t","_","n","u","m","b","e","r">>, <<"l","i","c","e","n","s","e">>, <<"d","r","i","v","e","r","_","l","i","c","e","n","s","e">>,
    <<"d","l">>, <<"n","a","m","e">>, <<"f","i","r","s","t","_","n","a","m","e">>,
    <<"l","a","s","t","_","n","a","m","e">>, <<"f","u","l","l","_","n","a","m","e">>, <<"f","i","r","s","t","n","a","m","e">>,
    <<"l","a","s","t","n","a","m","e">>, <<"f","u","l","l","n","a","m","e">>, <<"a","d","d","r","e","s","s">>,
    <<"s","t","r","e","e","t">>, <<"c","i","t","y">>, <<"z","i","p">>,
    <<"z","i","p","c","o","d","e">>, <<"p","o","s","t","a","l">>, <<"p","o","s","t","a","l","_","c","o","d","e">>,
    <<"i","p">>, <<"i","p","_","a","d","d","r","e","s","s">>, <<"i","p","a","d","d","r","e","s","s">>,
    <<"u","s","e","r","_","a","g","e","n","t">>, <<"u","s","e","r","a","g","e","n","t">>, <<"d","o","b">>,
    <<"d","a","t","e","_","o","f","_","b","i","r","t","h">>, <<"b","i","r","t","h","d","a","t","e">>, <<"b","i","r","t","h","d","a","y">>,
    <<"b","i","r","t","h","_","d","a","t","e">>, <<"i","b","a","n">>, <<"a","c","c","o","u","n","t","_","n","u","m","b","e","r">>,
    <<"b","a","n","k","_","a","c","c","o","u","n","t">>, <<"r","o","u","t","i","n","g","_","n","u","m","b","e","r">>, <<"u","s","e","r","n","a","m","e">>,
    <<"u","s","e","r","_","n","a","m","e">>, <<"l","o","g","i","n">>, <<"u","s","e","r","i","d">>
  >>

Range(seq) == {seq[i] : i \in 1..Len(seq)}

\* The lookup map initializeFieldMaps builds from a pattern list: a Go
\* map[string]bool whose every stored value is true, so the set of its keys.
\* Each pattern is inserted as written and fully uppercased.
BuildFieldsMap(patterns) ==
  Range(patterns) \cup {ToUpper(pattern) : pattern \in Range(patterns)}

\* The two lookup maps once built.  The state holds, for each lookup map, whether
\* it is still nil or holds these keys.
BuiltPIIFieldsMap == BuildFieldsMap(defaultPIIFields)

BuiltSensitiveFieldsMap == BuildFieldsMap(defaultSensitiveFields)

Keys(fieldsMap, built) == IF fieldsMap = "nil" THEN {} ELSE built

(***************************************************************************)
(* The computation of the two classifiers on a cache miss, against the     *)
(* lookup map as it is when the computation runs (nil before the build: a  *)
(* nil map holds no key).                                                  *)
(***************************************************************************)
\* The guard with a strict half: a prefix or suffix of exactly half the name is
\* not enough.
PIIPatternAccepted_StrictHalf(lowerFieldName, pattern) ==
  \/ len(pattern) >= 3
  \/ lowerFieldName = pattern
  \/ HasPrefix(lowerFieldName, pattern \o <<"_">>)
  \/ HasSuffix(lowerFieldName, <<"_">> \o pattern)
  \/ Contains(lowerFieldName, <<"_">> \o pattern \o <<"_">>)
  \/ (HasPrefix(lowerFieldName, pattern) /\ len(pattern) > len(lowerFieldName) \div 2)
  \/ (HasSuffix(lowerFieldName, pattern) /\ len(pattern) > len(lowerFieldName) \div 2)

\* The false-positive guard applied to a pattern the folded name contains.
PIIPatternAccepted(lowerFieldName, pattern) ==
  \/ len(pattern) >= 3
  \/ lowerFieldName = pattern
  \/ HasPrefix(lowerFieldName, pattern \o <<"_">>)
  \/ HasSuffix(lowerFieldName, <<"_">> \o pattern)
  \/ Contains(lowerFieldName, <<"_">> \o pattern \o <<"_">>)
  \/ (HasPrefix(lowerFieldName, pattern) /\ len(pattern) >= len(lowerFieldName) \div 2)
  \/ (HasSuffix(lowerFieldName, pattern) /\ len(pattern) >= len(lowerFieldName) \div 2)

\* lowerFieldName is bound once to the folded name, as the local variable is.
isPII(fieldName, fieldsMap) ==
  \E lowerFieldName \in {ToLower(fieldName)} :
    \/ lowerFieldName \in fieldsMap
    \/ \E pattern \in fieldsMap :
         /\ Contains(lowerFieldName, pattern)
         /\ PIIPatternAccepted(lowerFieldName, pattern)

isSensitive(fieldName, fieldsMap) ==
  \E lowerFieldName \in {ToLower(fieldName)} :
    \/ lowerFieldName \in fieldsMap
    \/ \E pattern \in fieldsMap : Contains(lowerFieldName, pattern)

(***************************************************************************)
(* The same computation with the range loop over the lookup map spelled    *)
(* out: the keys are visited in the order the iteration happens to take,   *)
(* and the loop breaks at the first key that decides.                      *)
(***************************************************************************)
\* The keys of a lookup map in the order initializeFieldMaps inserts them.
InsertionOrder(patterns) ==
  LET n == Len(patterns)
  IN  [i \in 1..(2 * n) |->
         IF i % 2 = 1 THEN patterns[(i + 1) \div 2] ELSE ToUpper(patterns[i \div 2])]

OrdersOf(S) ==
  {f \in [1..Cardinality(S) -> S] : \A i, j \in 1..Cardinality(S) : f[i] = f[j] => i = j}

\* Orders in which the range loop may visit the keys of fieldsMap.  A key the
\* folded name does not contain leaves the loop as it was, so the loop's course
\* is decided by the order of the keys the name contains: these are taken in
\* every order, before and after the other keys.
IterationOrders(fieldsMap, inserted, lowerFieldName) ==
  LET contained == {pattern \in fieldsMap : Contains(lowerFieldName, pattern)}
      Other(pattern) == pattern \in fieldsMap /\ pattern \notin contained
      others == SelectSeq(inserted, Other)
  IN  UNION { {first \o others, others \o first} : first \in OrdersOf(contained) }

RECURSIVE PIILoop(_, _, _, _)
\* for pattern := range piiFieldsMap, over the keys visited from the lo-th to
\* the hi-th, in that order; the keys after the one that breaks are not looked at.
PIILoop(lowerFieldName, order, lo, hi) ==
  IF lo > hi THEN FALSE
  ELSE IF lo = hi
    THEN Contains(lowerFieldName, order[lo]) /\ PIIPatternAccepted(lowerFieldName, order[lo])
    ELSE IF PIILoop(lowerFieldName, order, lo, (lo + hi) \div 2)
      THEN TRUE
      ELSE PIILoop(lowerFieldName, order, ((lo + hi) \div 2) + 1, hi)

RECURSIVE SensitiveLoop(_, _, _, _)
\* for pattern := range sensitiveFieldsMap, over the keys visited from the lo-th
\* to the hi-th, in that order.
SensitiveLoop(lowerFieldName, order, lo, hi) ==
  IF lo > hi THEN FALSE
  ELSE IF lo = hi
    THEN Contains(lowerFieldName, order[lo])
    ELSE IF SensitiveLoop(lowerFieldName, order, lo, (lo + hi) \div 2)
      THEN TRUE
      ELSE SensitiveLoop(lowerFieldName, order, ((lo + hi) \div 2) + 1, hi)

\* The loop with its break outside the guard: it stops at the first key the name
\* contains, accepted or not.
isPIIInOrder_BreakAtContained(lowerFieldName, fieldsMap, order) ==
  \/ lowerFieldName \in fieldsMap
  \/ \E i \in 1..Len(order) :
       /\ Contains(lowerFieldName, order[i])
       /\ PIIPatternAccepted(lowerFieldName, order[i])
       /\ \A j \in 1..(i - 1) : ~Contains(lowerFieldName, order[j])

isPIIInOrder(lowerFieldName, fieldsMap, order) ==
  \/ lowerFieldName \in fieldsMap
  \/ PIILoop(lowerFieldName, order, 1, Len(order))

isSensitiveInOrder(lowerFieldName, fieldsMap, order) ==
  \/ lowerFieldName \in fieldsMap
  \/ SensitiveLoop(lowerFieldName, order, 1, Len(order))

(***************************************************************************)
(* The Logger that owns a call (the receiver l): its two display modes and *)
(* its two mask strings.                                                   *)
(***************************************************************************)
SHOW_PII == "SHOW_PII"

SHOW_SENSITIVE == "SHOW_SENSITIVE"

PIIModes == {"MASK_PII", SHOW_PII}

SensitiveModes == {"MASK_SENSITIVE", SHOW_SENSITIVE}

Loggers ==
  [piiMode : PIIModes, sensitiveMode : SensitiveModes,
   piiMaskString : {"[PII]"}, maskString : {"***"}]

(***************************************************************************)
(* Field maps: map[string]any objects on the heap.  An address is an index *)
(* of heap; a value is an opaque leaf or a reference to a nested map.      *)
(***************************************************************************)
Leaf(v) == [kind |-> "leaf", v |-> v, ref |-> 0]

MapRef(a) == [kind |-> "map", v |-> "", ref |-> a]

EmptyMap == [k \in {} |-> Leaf("")]

\* m[key] = value on a Go map.
MapPut(m, key, value) == [k \in DOMAIN m \cup {key} |-> IF k = key THEN value ELSE m[k]]

Threads == {"t1", "t2"}

\* Calls the concurrent callers make in all.
MaxCalls == 2

\* Field maps in the structure a caller passes to the masker.
MaxMaps == 2

\* Runes in the field names drawn from the alphabet.
MaxNameLen == 3

VARIABLES
  heap,                \* the field maps allocated so far
  piiCache,            \* fieldCache.piiCache
  sensitiveCache,      \* fieldCache.sensitiveCache
  mu,                  \* fieldCache.mu: the writer holding it, the readers holding it
  piiFieldsMap,        \* the PII lookup map: "nil" or "built"
  sensitiveFieldsMap,  \* the sensitive lookup map: "nil" or "built"
  onceInit,            \* sync.Once: "new", "running" (the build is under way), "done"
  stack,               \* per thread, its call stack: the frames of the calls in progress
  retBool,             \* per thread, the boolean its last returned call gave
  retMap,              \* per thread, the map its last returned call gave (0: none)
  calls,               \* the calls the callers may still start
  trace,               \* history: per thread, what its current outermost call did to the caches
  last,                \* history: per thread, its last completed outermost call
  before,              \* history: per thread, the outermost call completed before that one
  audit                \* history: which verdicts were computed, and which predate a clear

vars == <<heap, piiCache, sensitiveCache, mu, piiFieldsMap, sensitiveFieldsMap,
          onceInit, stack, retBool, retMap, calls, trace, last, before, audit>>

registry == <<piiFieldsMap, sensitiveFieldsMap, onceInit>>

caches == <<piiCache, sensitiveCache>>

hist == <<trace, last, before, audit>>

NoCall == [fn |-> "none", l |-> CHOOSE l \in Loggers : TRUE, fieldName |-> <<>>,
           fields |-> 0, retBool |-> FALSE, retMap |-> 0, trace |-> {}]

Top(t) == stack[t][Len(stack[t])]

InFrame(t, fn, pc) ==
  /\ stack[t] # <<>>
  /\ Top(t).fn = fn
  /\ Top(t).pc = pc

\* The stack of t with the top frame's fields changed as in the record upd.
WithTop(t, upd) ==
  [stack[t] EXCEPT ![Len(stack[t])] =
     [f \in DOMAIN @ |-> IF f \in DOMAIN upd THEN upd[f] ELSE @[f]]]

Pushed(stk, frame) == Append(stk, frame)

Popped(t) == SubSeq(stack[t], 1, Len(stack[t]) - 1)

PIIFrame(l, fieldName) ==
  [fn |-> "isPIIFieldFast", pc |-> "mode", l |-> l, fieldName |-> fieldName,
   isPII |-> FALSE]

SensitiveFrame(l, fieldName) ==
  [fn |-> "isSensitiveFieldFast", pc |-> "mode", l |-> l, fieldName |-> fieldName,
   isSensitive |-> FALSE]

MaskFrame(l, fields) ==
  [fn |-> "maskSensitiveFieldsFast", pc |-> "entry", l |-> l, fields |-> fields,
   maskedFields |-> 0, todo |-> {}, key |-> <<>>]

ClearFrame == [fn |-> "ClearFieldCache", pc |-> "lock"]

\* A caller that is in no call and may still make one.
Idle(t) ==
  /\ stack[t] = <<>>
  /\ calls > 0

\* A caller starts an outermost call.
Begin(t, frame) ==
  /\ Idle(t)
  /\ calls' = calls - 1
  /\ stack' = [stack EXCEPT ![t] = <<frame>>]
  /\ trace' = [trace EXCEPT ![t] = {}]
  /\ before' = [before EXCEPT ![t] = last[t]]
  /\ UNCHANGED <<heap, caches, mu, registry, retBool, retMap, last, audit>>

\* What the completed outermost call is remembered as: the call and what it gave.
Completed(t, b, a, tr) ==
  LET fr == stack[t][1]
  IN  [fn |-> fr.fn,
       l |-> IF "l" \in DOMAIN fr THEN fr.l ELSE NoCall.l,
       fieldName |-> IF "fieldName" \in DOMAIN fr THEN fr.fieldName ELSE <<>>,
       fields |-> IF "fields" \in DOMAIN fr THEN fr.fields ELSE 0,
       retBool |-> b, retMap |-> a, trace |-> tr]

\* The top frame of t returns: to the frame below, or to the caller.
Return(t, b, a, tr) ==
  /\ stack' = [stack EXCEPT ![t] = Popped(t)]
  /\ retBool' = [retBool EXCEPT ![t] = b]
  /\ retMap' = [retMap EXCEPT ![t] = a]
  /\ trace' = [trace EXCEPT ![t] = tr]
  /\ last' = IF Len(stack[t]) = 1 THEN [last EXCEPT ![t] = Completed(t, b, a, tr)] ELSE last
  /\ UNCHANGED before

ReturnBool(t, b, tr) == Return(t, b, retMap[t], tr)

ReturnMap(t, a, tr) == Return(t, retBool[t], a, tr)

ReturnVoid(t, tr) == Return(t, retBool[t], retMap[t], tr)

Event(what, cat, fieldName) == [what |-> what, cat |-> cat, fieldName |-> fieldName]

\* The audit of the cache, kept beside the program's state.  computed: the
\* <<category, name>> whose verdict was computed since the cache of the category
\* was last replaced; twice: those computed again in that time; preClear: the
\* threads holding a computed verdict, not yet stored, when the cache of its
\* category was replaced; stale: the entries of the caches stored from such
\* verdicts.
NoAudit == [computed |-> {}, twice |-> {}, preClear |-> {}, stale |-> {}]

AuditCompute(cat, fieldName) ==
  [audit EXCEPT
     !.computed = @ \cup {<<cat, fieldName>>},
     !.twice = IF <<cat, fieldName>> \in audit.computed
                 THEN @ \cup {<<cat, fieldName>>} ELSE @]

AuditStore(t, cat, fieldName) ==
  [audit EXCEPT
     !.preClear = @ \ {t},
     !.stale = IF t \in audit.preClear
                 THEN @ \cup {<<cat, fieldName>>} ELSE @ \ {<<cat, fieldName>>}]

\* The cache of cat is replaced while the threads of waiting hold a verdict for it.
AuditReplaced(cat, waiting) ==
  [audit EXCEPT
     !.computed = {e \in @ : e[1] # cat},
     !.stale = {e \in @ : e[1] # cat},
     !.preClear = @ \cup waiting]

(***************************************************************************)
(* initializeFieldMaps: the build runs once, under onceInit; a caller that *)
(* arrives while it runs waits until it is over.                           *)
(***************************************************************************)
Classifiers == {"isPIIFieldFast", "isSensitiveFieldFast"}

InClassifier(t, pc) ==
  /\ stack[t] # <<>>
  /\ Top(t).fn \in Classifiers
  /\ Top(t).pc = pc

initializeFieldMaps_begin(t) ==
  /\ InClassifier(t, "init")
  /\ onceInit = "new"
  /\ onceInit' = "running"
  /\ piiFieldsMap' = "built"
  /\ stack' = [stack EXCEPT ![t] = WithTop(t, [pc |-> "build"])]
  /\ UNCHANGED <<heap, caches, mu, sensitiveFieldsMap, retBool, retMap, calls, hist>>

initializeFieldMaps_finish(t) ==
  /\ InClassifier(t, "build")
  /\ sensitiveFieldsMap' = "built"
  /\ onceInit' = "done"
  /\ stack' = [stack EXCEPT ![t] = WithTop(t, [pc |-> "rlock"])]
  /\ UNCHANGED <<heap, caches, mu, piiFieldsMap, retBool, retMap, calls, hist>>

\* A caller that does not wait for the build under way.
initializeFieldMaps_done_NoWait(t) ==
  /\ InClassifier(t, "init")
  /\ onceInit \in {"running", "done"}
  /\ stack' = [stack EXCEPT ![t] = WithTop(t, [pc |-> "rlock"])]
  /\ UNCHANGED <<heap, caches, mu, registry, retBool, retMap, calls, hist>>

initializeFieldMaps_done(t) ==
  /\ InClassifier(t, "init")
  /\ onceInit = "done"
  /\ stack' = [stack EXCEPT ![t] = WithTop(t, [pc |-> "rlock"])]
  /\ UNCHANGED <<heap, caches, mu, registry, retBool, retMap, calls, hist>>

(***************************************************************************)
(* fieldCache.mu                                                           *)
(***************************************************************************)
NoThread == "none"

RLock(t) ==
  /\ mu.writer = NoThread
  /\ mu' = [mu EXCEPT !.readers = @ \cup {t}]

RUnlock(t) == mu' = [mu EXCEPT !.readers = @ \ {t}]

Lock(t) ==
  /\ mu.writer = NoThread
  /\ mu.readers = {}
  /\ mu' = [mu EXCEPT !.writer = t]

Unlock(t) == mu' = [mu EXCEPT !.writer = NoThread]

(***************************************************************************)
(* isPIIFieldFast                                                          *)
(***************************************************************************)
\* isPIIFieldFast going on to the cache whatever l.piiMode is.
isPIIFieldFast_mode_Unchecked(t) ==
  /\ InFrame(t, "isPIIFieldFast", "mode")
  /\ stack' = [stack EXCEPT ![t] = WithTop(t, [pc |-> "init"])]
  /\ trace' = [trace EXCEPT ![t] = @ \cup {Event("call", "pii", Top(t).fieldName)}]
  /\ UNCHANGED <<heap, caches, mu, registry, retBool, retMap, calls, last, before, audit>>

isPIIFieldFast_mode(t) ==
  /\ InFrame(t, "isPIIFieldFast", "mode")
  /\ LET tr == trace[t] \cup {Event("call", "pii", Top(t).fieldName)}
     IN  IF Top(t).l.piiMode = SHOW_PII
           THEN ReturnBool(t, FALSE, tr)
           ELSE /\ stack' = [stack EXCEPT ![t] = WithTop(t, [pc |-> "init"])]
                /\ trace' = [trace EXCEPT ![t] = tr]
                /\ UNCHANGED <<retBool, retMap, last, before>>
  /\ UNCHANGED <<heap, caches, mu, registry, calls, audit>>

isPIIFieldFast_rlock(t) ==
  /\ InFrame(t, "isPIIFieldFast", "rlock")
  /\ RLock(t)
  /\ stack' = [stack EXCEPT ![t] = WithTop(t, [pc |-> "lookup"])]
  /\ UNCHANGED <<heap, caches, registry, retBool, retMap, calls, hist>>

\* The lookup made in the cache of the other category.
isPIIFieldFast_lookup_OtherCache(t) ==
  /\ InFrame(t, "isPIIFieldFast", "lookup")
  /\ RUnlock(t)
  /\ LET fieldName == Top(t).fieldName
         tr == trace[t] \cup {Event("lookup", "pii", fieldName)}
     IN  IF fieldName \in DOMAIN sensitiveCache
           THEN ReturnBool(t, sensitiveCache[fieldName], tr)
           ELSE /\ stack' = [stack EXCEPT ![t] = WithTop(t, [pc |-> "compute"])]
                /\ trace' = [trace EXCEPT ![t] = tr]
                /\ UNCHANGED <<retBool, retMap, last, before>>
  /\ UNCHANGED <<heap, caches, registry, calls, audit>>

isPIIFieldFast_lookup(t) ==
  /\ InFrame(t, "isPIIFieldFast", "lookup")
  /\ RUnlock(t)
  /\ LET fieldName == Top(t).fieldName
         tr == trace[t] \cup {Event("lookup", "pii", fieldName)}
     IN  IF fieldName \in DOMAIN piiCache
           THEN ReturnBool(t, piiCache[fieldName], tr)
           ELSE /\ stack' = [stack EXCEPT ![t] = WithTop(t, [pc |-> "compute"])]
                /\ trace' = [trace EXCEPT ![t] = tr]
                /\ UNCHANGED <<retBool, retMap, last, before>>
  /\ UNCHANGED <<heap, caches, registry, calls, audit>>

isPIIFieldFast_compute(t) ==
  /\ InFrame(t, "isPIIFieldFast", "compute")
  /\ stack' = [stack EXCEPT ![t] =
       WithTop(t, [pc |-> "lock", isPII |-> isPII(Top(t).fieldName, Keys(piiFieldsMap, BuiltPIIFieldsMap))])]
  /\ trace' = [trace EXCEPT ![t] = @ \cup {Event("compute", "pii", Top(t).fieldName)}]
  /\ audit' = AuditCompute("pii", Top(t).fieldName)
  /\ UNCHANGED <<heap, caches, mu, registry, retBool, retMap, calls, last, before>>

isPIIFieldFast_lock(t) ==
  /\ InFrame(t, "isPIIFieldFast", "lock")
  /\ Lock(t)
  /\ stack' = [stack EXCEPT ![t] = WithTop(t, [pc |-> "store"])]
  /\ UNCHANGED <<heap, caches, registry, retBool, retMap, calls, hist>>

\* The store caching true instead of the verdict.
isPIIFieldFast_store_True(t) ==
  /\ InFrame(t, "isPIIFieldFast", "store")
  /\ piiCache' = MapPut(piiCache, Top(t).fieldName, TRUE)
  /\ Unlock(t)
  /\ ReturnBool(t, Top(t).isPII, trace[t] \cup {Event("store", "pii", Top(t).fieldName)})
  /\ audit' = AuditStore(t, "pii", Top(t).fieldName)
  /\ UNCHANGED <<heap, sensitiveCache, registry, calls>>

isPIIFieldFast_store(t) ==
  /\ InFrame(t, "isPIIFieldFast", "store")
  /\ piiCache' = MapPut(piiCache, Top(t).fieldName, Top(t).isPII)
  /\ Unlock(t)
  /\ ReturnBool(t, Top(t).isPII, trace[t] \cup {Event("store", "pii", Top(t).fieldName)})
  /\ audit' = AuditStore(t, "pii", Top(t).fieldName)
  /\ UNCHANGED <<heap, sensitiveCache, registry, calls>>

(***************************************************************************)
(* isSensitiveFieldFast                                                    *)
(***************************************************************************)
\* isSensitiveFieldFast going on to the cache whatever l.sensitiveMode is.
isSensitiveFieldFast_mode_Unchecked(t) ==
  /\ InFrame(t, "isSensitiveFieldFast", "mode")
  /\ stack' = [stack EXCEPT ![t] = WithTop(t, [pc |-> "init"])]
  /\ trace' = [trace EXCEPT ![t] = @ \cup {Event("call", "sensitive", Top(t).fieldName)}]
  /\ UNCHANGED <<heap, caches, mu, registry, retBool, retMap, calls, last, before, audit>>

isSensitiveFieldFast_mode(t) ==
  /\ InFrame(t, "isSensitiveFieldFast", "mode")
  /\ LET tr == trace[t] \cup {Event("call", "sensitive", Top(t).fieldName)}
     IN  IF Top(t).l.sensitiveMode = SHOW_SENSITIVE
           THEN ReturnBool(t, FALSE, tr)
           ELSE /\ stack' = [stack EXCEPT ![t] = WithTop(t, [pc |-> "init"])]
                /\ trace' = [trace EXCEPT ![t] = tr]
                /\ UNCHANGED <<retBool, retMap, last, before>>
  /\ UNCHANGED <<heap, caches, mu, registry, calls, audit>>

\* The lookup reached without the read lock.
isSensitiveFieldFast_rlock_Skipped(t) ==
  /\ InFrame(t, "isSensitiveFieldFast", "rlock")
  /\ stack' = [stack EXCEPT ![t] = WithTop(t, [pc |-> "lookup"])]
  /\ UNCHANGED <<heap, caches, mu, registry, retBool, retMap, calls, hist>>

isSensitiveFieldFast_rlock(t) ==
  /\ InFrame(t, "isSensitiveFieldFast", "rlock")
  /\ RLock(t)
  /\ stack' = [stack EXCEPT ![t] = WithTop(t, [pc |-> "lookup"])]
  /\ UNCHANGED <<heap, caches, registry, retBool, retMap, calls, hist>>

isSensitiveFieldFast_lookup(t) ==
  /\ InFrame(t, "isSensitiveFieldFast", "lookup")
  /\ RUnlock(t)
  /\ LET fieldName == Top(t).fieldName
         tr == trace[t] \cup {Event("lookup", "sensitive", fieldName)}
     IN  IF fieldName \in DOMAIN sensitiveCache
           THEN ReturnBool(t, sensitiveCache[fieldName], tr)
           ELSE /\ stack' = [stack EXCEPT ![t] = WithTop(t, [pc |-> "compute"])]
                /\ trace' = [trace EXCEPT ![t] = tr]
                /\ UNCHANGED <<retBool, retMap, last, before>>
  /\ UNCHANGED <<heap, caches, registry, calls, audit>>

\* The computation made against the PII lookup map.
isSensitiveFieldFast_compute_PIIMap(t) ==
  /\ InFrame(t, "isSensitiveFieldFast", "compute")
  /\ stack' = [stack EXCEPT ![t] =
       WithTop(t, [pc |-> "lock",
                   isSensitive |-> isSensitive(Top(t).fieldName,
                                              Keys(piiFieldsMap, BuiltPIIFieldsMap))])]
  /\ trace' = [trace EXCEPT ![t] = @ \cup {Event("compute", "sensitive", Top(t).fieldName)}]
  /\ audit' = AuditCompute("sensitive", Top(t).fieldName)
  /\ UNCHANGED <<heap, caches, mu, registry, retBool, retMap, calls, last, before>>

isSensitiveFieldFast_compute(t) ==
  /\ InFrame(t, "isSensitiveFieldFast", "compute")
  /\ stack' = [stack EXCEPT ![t] =
       WithTop(t, [pc |-> "lock",
                   isSensitive |-> isSensitive(Top(t).fieldName,
                                              Keys(sensitiveFieldsMap, BuiltSensitiveFieldsMap))])]
  /\ trace' = [trace EXCEPT ![t] = @ \cup {Event("compute", "sensitive", Top(t).fieldName)}]
  /\ audit' = AuditCompute("sensitive", Top(t).fieldName)
  /\ UNCHANGED <<heap, caches, mu, registry, retBool, retMap, calls, last, before>>

isSensitiveFieldFast_lock(t) ==
  /\ InFrame(t, "isSensitiveFieldFast", "lock")
  /\ Lock(t)
  /\ stack' = [stack EXCEPT ![t] = WithTop(t, [pc |-> "store"])]
  /\ UNCHANGED <<heap, caches, registry, retBool, retMap, calls, hist>>

isSensitiveFieldFast_store(t) ==
  /\ InFrame(t, "isSensitiveFieldFast", "store")
  /\ sensitiveCache' = MapPut(sensitiveCache, Top(t).fieldName, Top(t).isSensitive)
  /\ Unlock(t)
  /\ ReturnBool(t, Top(t).isSensitive,
                trace[t] \cup {Event("store", "sensitive", Top(t).fieldName)})
  /\ audit' = AuditStore(t, "sensitive", Top(t).fieldName)
  /\ UNCHANGED <<heap, piiCache, registry, calls>>

(***************************************************************************)
(* The computations with the iteration order of the range loop chosen by   *)
(* the run.                                                                *)
(***************************************************************************)
isPIIFieldFast_compute_inOrder(t) ==
  /\ InFrame(t, "isPIIFieldFast", "compute")
  /\ \E lowerFieldName \in {ToLower(Top(t).fieldName)} :
       \E fieldsMap \in {Keys(piiFieldsMap, BuiltPIIFieldsMap)} :
         \E order \in IterationOrders(fieldsMap, InsertionOrder(defaultPIIFields),
                                      lowerFieldName) :
           stack' = [stack EXCEPT ![t] =
             WithTop(t, [pc |-> "lock",
                         isPII |-> isPIIInOrder(lowerFieldName, fieldsMap, order)])]
  /\ trace' = [trace EXCEPT ![t] = @ \cup {Event("compute", "pii", Top(t).fieldName)}]
  /\ audit' = AuditCompute("pii", Top(t).fieldName)
  /\ UNCHANGED <<heap, caches, mu, registry, retBool, retMap, calls, last, before>>

isSensitiveFieldFast_compute_inOrder(t) ==
  /\ InFrame(t, "isSensitiveFieldFast", "compute")
  /\ \E lowerFieldName \in {ToLower(Top(t).fieldName)} :
       \E fieldsMap \in {Keys(sensitiveFieldsMap, BuiltSensitiveFieldsMap)} :
         \E order \in IterationOrders(fieldsMap, InsertionOrder(defaultSensitiveFields),
                                      lowerFieldName) :
           stack' = [stack EXCEPT ![t] =
             WithTop(t, [pc |-> "lock",
                         isSensitive |-> isSensitiveInOrder(lowerFieldName, fieldsMap, order)])]
  /\ trace' = [trace EXCEPT ![t] = @ \cup {Event("compute", "sensitive", Top(t).fieldName)}]
  /\ audit' = AuditCompute("sensitive", Top(t).fieldName)
  /\ UNCHANGED <<heap, caches, mu, registry, retBool, retMap, calls, last, before>>

(***************************************************************************)
(* maskSensitiveFieldsFast                                                 *)
(***************************************************************************)
\* The entry without the test for an empty input.
maskSensitiveFieldsFast_entry_NoEmptyTest(t) ==
  /\ InFrame(t, "maskSensitiveFieldsFast", "entry")
  /\ LET fr == Top(t)
     IN  IF fr.l.sensitiveMode = SHOW_SENSITIVE /\ fr.l.piiMode = SHOW_PII
           THEN /\ ReturnMap(t, fr.fields, trace[t])
                /\ UNCHANGED heap
           ELSE /\ heap' = Append(heap, EmptyMap)
                /\ stack' = [stack EXCEPT ![t] =
                     WithTop(t, [pc |-> "range", maskedFields |-> Len(heap) + 1,
                                 todo |-> DOMAIN heap[fr.fields]])]
                /\ UNCHANGED <<retBool, retMap, hist>>
  /\ UNCHANGED <<caches, mu, registry, calls, audit>>

\* The identity return, or the allocation of maskedFields.
maskSensitiveFieldsFast_entry(t) ==
  /\ InFrame(t, "maskSensitiveFieldsFast", "entry")
  /\ LET fr == Top(t)
     IN  IF \/ (fr.l.sensitiveMode = SHOW_SENSITIVE /\ fr.l.piiMode = SHOW_PII)
            \/ DOMAIN heap[fr.fields] = {}
           THEN /\ ReturnMap(t, fr.fields, trace[t])
                /\ UNCHANGED heap
           ELSE /\ heap' = Append(heap, EmptyMap)
                /\ stack' = [stack EXCEPT ![t] =
                     WithTop(t, [pc |-> "range", maskedFields |-> Len(heap) + 1,
                                 todo |-> DOMAIN heap[fr.fields]])]
                /\ UNCHANGED <<retBool, retMap, hist>>
  /\ UNCHANGED <<caches, mu, registry, calls, audit>>

\* The next key of the range loop, in any order, and the call of isPIIFieldFast on it.
maskSensitiveFieldsFast_range(t) ==
  /\ InFrame(t, "maskSensitiveFieldsFast", "range")
  /\ Top(t).todo # {}
  /\ \E key \in Top(t).todo :
       stack' = [stack EXCEPT ![t] =
         Pushed(WithTop(t, [pc |-> "pii", key |-> key, todo |-> Top(t).todo \ {key}]),
                PIIFrame(Top(t).l, key))]
  /\ UNCHANGED <<heap, caches, mu, registry, retBool, retMap, calls, hist>>

\* isSensitiveFieldFast(key) called whatever isPIIFieldFast(key) returned.
maskSensitiveFieldsFast_pii_NoShortCircuit(t) ==
  /\ InFrame(t, "maskSensitiveFieldsFast", "pii")
  /\ stack' = [stack EXCEPT ![t] =
       Pushed(WithTop(t, [pc |-> "sensitive"]), SensitiveFrame(Top(t).l, Top(t).key))]
  /\ UNCHANGED <<heap, caches, mu, registry, retBool, retMap, calls, hist>>

\* The PII mask written into the input map.
maskSensitiveFieldsFast_pii_InPlace(t) ==
  /\ InFrame(t, "maskSensitiveFieldsFast", "pii")
  /\ LET fr == Top(t)
     IN  IF retBool[t]
           THEN /\ heap' = [heap EXCEPT ![fr.fields] =
                              MapPut(@, fr.key, Leaf(fr.l.piiMaskString))]
                /\ stack' = [stack EXCEPT ![t] = WithTop(t, [pc |-> "range"])]
           ELSE /\ stack' = [stack EXCEPT ![t] =
                     Pushed(WithTop(t, [pc |-> "sensitive"]), SensitiveFrame(fr.l, fr.key))]
                /\ UNCHANGED heap
  /\ UNCHANGED <<caches, mu, registry, retBool, retMap, calls, hist>>

\* After isPIIFieldFast(key): the PII mask, or the call of isSensitiveFieldFast.
maskSensitiveFieldsFast_pii(t) ==
  /\ InFrame(t, "maskSensitiveFieldsFast", "pii")
  /\ LET fr == Top(t)
     IN  IF retBool[t]
           THEN /\ heap' = [heap EXCEPT ![fr.maskedFields] =
                              MapPut(@, fr.key, Leaf(fr.l.piiMaskString))]
                /\ stack' = [stack EXCEPT ![t] = WithTop(t, [pc |-> "range"])]
           ELSE /\ stack' = [stack EXCEPT ![t] =
                     Pushed(WithTop(t, [pc |-> "sensitive"]), SensitiveFrame(fr.l, fr.key))]
                /\ UNCHANGED heap
  /\ UNCHANGED <<caches, mu, registry, retBool, retMap, calls, hist>>

\* The nested map copied as it is, without the recursive call.
maskSensitiveFieldsFast_sensitive_NoRecursion(t) ==
  /\ InFrame(t, "maskSensitiveFieldsFast", "sensitive")
  /\ LET fr == Top(t)
         value == heap[fr.fields][fr.key]
     IN  heap' = [heap EXCEPT ![fr.maskedFields] =
                    MapPut(@, fr.key, IF retBool[t] THEN Leaf(fr.l.maskString) ELSE value)]
  /\ stack' = [stack EXCEPT ![t] = WithTop(t, [pc |-> "range"])]
  /\ UNCHANGED <<caches, mu, registry, retBool, retMap, calls, hist>>

\* After isSensitiveFieldFast(key): the generic mask, the recursive call on a
\* nested map, or the copy of the value.
maskSensitiveFieldsFast_sensitive(t) ==
  /\ InFrame(t, "maskSensitiveFieldsFast", "sensitive")
  /\ LET fr == Top(t)
         value == heap[fr.fields][fr.key]
     IN  IF retBool[t]
           THEN /\ heap' = [heap EXCEPT ![fr.maskedFields] =
                              MapPut(@, fr.key, Leaf(fr.l.maskString))]
                /\ stack' = [stack EXCEPT ![t] = WithTop(t, [pc |-> "range"])]
           ELSE IF value.kind = "map"
             THEN /\ stack' = [stack EXCEPT ![t] =
                       Pushed(WithTop(t, [pc |-> "nested"]), MaskFrame(fr.l, value.ref))]
                  /\ UNCHANGED heap
             ELSE /\ heap' = [heap EXCEPT ![fr.maskedFields] = MapPut(@, fr.key, value)]
                  /\ stack' = [stack EXCEPT ![t] = WithTop(t, [pc |-> "range"])]
  /\ UNCHANGED <<caches, mu, registry, retBool, retMap, calls, hist>>

\* The result of the recursive call dropped, the generic mask stored in its place.
maskSensitiveFieldsFast_nested_Dropped(t) ==
  /\ InFrame(t, "maskSensitiveFieldsFast", "nested")
  /\ heap' = [heap EXCEPT ![Top(t).maskedFields] =
                 MapPut(@, Top(t).key, Leaf(Top(t).l.maskString))]
  /\ stack' = [stack EXCEPT ![t] = WithTop(t, [pc |-> "range"])]
  /\ UNCHANGED <<caches, mu, registry, retBool, retMap, calls, hist>>

\* After the recursive call: its result is stored under the key.
maskSensitiveFieldsFast_nested(t) ==
  /\ InFrame(t, "maskSensitiveFieldsFast", "nested")
  /\ heap' = [heap EXCEPT ![Top(t).maskedFields] = MapPut(@, Top(t).key, MapRef(retMap[t]))]
  /\ stack' = [stack EXCEPT ![t] = WithTop(t, [pc |-> "range"])]
  /\ UNCHANGED <<caches, mu, registry, retBool, retMap, calls, hist>>

maskSensitiveFieldsFast_return(t) ==
  /\ InFrame(t, "maskSensitiveFieldsFast", "range")
  /\ Top(t).todo = {}
  /\ ReturnMap(t, Top(t).maskedFields, trace[t])
  /\ UNCHANGED <<heap, caches, mu, registry, calls, audit>>

(***************************************************************************)
(* ClearFieldCache                                                         *)
(***************************************************************************)
\* The cache of cat is replaced: the verdicts the classifier fn has computed and
\* not yet stored predate the new cache.
AuditClear(cat, fn) ==
  AuditReplaced(cat, {t \in Threads : InFrame(t, fn, "lock")})

ClearFieldCache_lock(t) ==
  /\ InFrame(t, "ClearFieldCache", "lock")
  /\ Lock(t)
  /\ stack' = [stack EXCEPT ![t] = WithTop(t, [pc |-> "piiCache"])]
  /\ UNCHANGED <<heap, caches, registry, retBool, retMap, calls, hist>>

\* The first cache replaced in a section of its own, the lock released after it.
ClearFieldCache_piiCache_OwnSection(t) ==
  /\ InFrame(t, "ClearFieldCache", "piiCache")
  /\ piiCache' = [f \in {} |-> FALSE]
  /\ Unlock(t)
  /\ stack' = [stack EXCEPT ![t] = WithTop(t, [pc |-> "sensitiveCache"])]
  /\ audit' = AuditClear("pii", "isPIIFieldFast")
  /\ UNCHANGED <<heap, sensitiveCache, registry, retBool, retMap, calls, trace, last, before>>

ClearFieldCache_piiCache(t) ==
  /\ InFrame(t, "ClearFieldCache", "piiCache")
  /\ piiCache' = [f \in {} |-> FALSE]
  /\ stack' = [stack EXCEPT ![t] = WithTop(t, [pc |-> "sensitiveCache"])]
  /\ audit' = AuditClear("pii", "isPIIFieldFast")
  /\ UNCHANGED <<heap, sensitiveCache, mu, registry, retBool, retMap, calls, trace, last, before>>

ClearFieldCache_sensitiveCache(t) ==
  /\ InFrame(t, "ClearFieldCache", "sensitiveCache")
  /\ sensitiveCache' = [f \in {} |-> FALSE]
  /\ stack' = [stack EXCEPT ![t] = WithTop(t, [pc |-> "unlock"])]
  /\ audit' = AuditClear("sensitive", "isSensitiveFieldFast")
  /\ UNCHANGED <<heap, piiCache, mu, registry, retBool, retMap, calls, trace, last, before>>

\* The return without the deferred Unlock.
ClearFieldCache_unlock_Missing(t) ==
  /\ InFrame(t, "ClearFieldCache", "unlock")
  /\ ReturnVoid(t, trace[t] \cup {Event("clear", "both", <<>>)})
  /\ UNCHANGED <<heap, caches, mu, registry, calls, audit>>

\* The deferred Unlock, as the function returns.
ClearFieldCache_unlock(t) ==
  /\ InFrame(t, "ClearFieldCache", "unlock")
  /\ Unlock(t)
  /\ ReturnVoid(t, trace[t] \cup {Event("clear", "both", <<>>)})
  /\ UNCHANGED <<heap, caches, registry, calls, audit>>

(***************************************************************************)
(* The inputs the callers draw from.                                       *)
(***************************************************************************)
email == <<"e","m","a","i","l">>

token == <<"t","o","k","e","n">>

passport == <<"p","a","s","s","p","o","r","t">>

note == <<"n","o","t","e">>

\* Field names the properties below name.
SampleNames ==
  { <<"d","e","s","c","r","i","p","t","i","o","n">>, <<"t","r","i","p">>,
    <<"i","p","_","a","d","d","r","e","s","s">>, <<"z","i","p">>,
    <<"p","a","s","s","w","o","r","d">>, <<"P","A","S","S","W","O","R","D">>,
    <<"P","a","s","s","w","o","r","d">>, <<"E","m","a","i","l">>,
    email, token, passport, note, <<"u","s","e","r">>, <<"i","d">>,
    <<"i","p","s","u","m">>, <<"s","t","r","i","p">> }

\* Runes of the generated field names: those of the two-rune PII pattern "ip" and
\* of the sensitive pattern "pin", in both cases, the separator, and a letter
\* outside ASCII.
Alphabet == {"i", "p", "n", "_", "I", "P", DotlessI}

RECURSIVE NamesOfLen(_)
NamesOfLen(n) ==
  IF n = 0 THEN {<<>>}
  ELSE {Append(s, c) : s \in NamesOfLen(n - 1), c \in Alphabet}

AllNames == SampleNames \cup UNION {NamesOfLen(n) : n \in 0..MaxNameLen}

\* The spellings of a name a caller may try next: the name again, folded to
\* lower case, folded to upper case, and with its first rune in upper case.
Capitalized(s) == [i \in 1..Len(s) |-> IF i = 1 THEN ToUpperRune(s[i]) ELSE s[i]]

Variants(s) == {s, ToLower(s), ToUpper(s), Capitalized(s)}

\* Loggers of the concurrent callers: one that masks, one that shows.
SharedLoggers == {l \in Loggers : (l.piiMode = SHOW_PII) <=> (l.sensitiveMode = SHOW_SENSITIVE)}

\* Names of the concurrent callers.
SharedNames == {email}

\* Keys of the generated field maps: a PII name, a sensitive name, a name that is
\* both, a name that is neither.
MaskKeys == {email, token, passport, note}

\* A root map has at most two keys, a nested map at most one; the values are leaves.
RootMaps == {[k \in S |-> Leaf("v")] : S \in {{j, k} : j \in MaskKeys, k \in MaskKeys} \cup {{}}}

NestedMaps == {[k \in S |-> Leaf("v")] : S \in {{k} : k \in MaskKeys} \cup {{}}}

LeafKeys(m) == {k \in DOMAIN m : m[k].kind = "leaf"}

\* Heaps of n field maps, the first one the root: every other map is the value
\* of one key of an earlier map (no cycle, no sharing).
RECURSIVE Heaps(_)
Heaps(n) ==
  IF n = 1 THEN {<<m>> : m \in RootMaps}
  ELSE UNION { { Append([h EXCEPT ![i] = MapPut(@, k, MapRef(n))], m) :
                   k \in LeafKeys(h[i]), m \in NestedMaps } :
               h \in Heaps(n - 1), i \in 1..(n - 1) }

\* {"user": {"email": "a@b.com", "id": 7}, "note": "hi"}
ExampleHeap ==
  << (<<"u","s","e","r">> :> MapRef(2)) @@ (note :> Leaf("hi")),
     (email :> Leaf("a@b.com")) @@ (<<"i","d">> :> Leaf("7")) >>

InputHeaps == UNION {Heaps(n) : n \in 1..MaxMaps} \cup {ExampleHeap}

\* Field maps of the concurrent callers.
SharedHeaps ==
  { << (note :> MapRef(2)), (email :> Leaf("v")) >> }

(***************************************************************************)
(* The callers: each starts its calls one after the other.                 *)
(***************************************************************************)
CallIsPIIFieldFast(t, l, fieldName) == Begin(t, PIIFrame(l, fieldName))

CallIsSensitiveFieldFast(t, l, fieldName) == Begin(t, SensitiveFrame(l, fieldName))

CallMaskSensitiveFieldsFast(t, l, fields) ==
  /\ fields \in 1..Len(heap)
  /\ Begin(t, MaskFrame(l, fields))

CallClearFieldCache(t) == Begin(t, ClearFrame)

Classify(t) ==
  \/ initializeFieldMaps_begin(t)
  \/ initializeFieldMaps_finish(t)
  \/ initializeFieldMaps_done(t)
  \/ isPIIFieldFast_mode(t)
  \/ isPIIFieldFast_rlock(t)
  \/ isPIIFieldFast_lookup(t)
  \/ isPIIFieldFast_compute(t)
  \/ isPIIFieldFast_lock(t)
  \/ isPIIFieldFast_store(t)
  \/ isSensitiveFieldFast_mode(t)
  \/ isSensitiveFieldFast_rlock(t)
  \/ isSensitiveFieldFast_lookup(t)
  \/ isSensitiveFieldFast_compute(t)
  \/ isSensitiveFieldFast_lock(t)
  \/ isSensitiveFieldFast_store(t)

Mask(t) ==
  \/ maskSensitiveFieldsFast_entry(t)
  \/ maskSensitiveFieldsFast_range(t)
  \/ maskSensitiveFieldsFast_pii(t)
  \/ maskSensitiveFieldsFast_sensitive(t)
  \/ maskSensitiveFieldsFast_nested(t)
  \/ maskSensitiveFieldsFast_return(t)

Clear(t) ==
  \/ ClearFieldCache_lock(t)
  \/ ClearFieldCache_piiCache(t)
  \/ ClearFieldCache_sensitiveCache(t)
  \/ ClearFieldCache_unlock(t)

InitProcess ==
  /\ piiCache = [f \in {} |-> FALSE]
  /\ sensitiveCache = [f \in {} |-> FALSE]
  /\ mu = [writer |-> NoThread, readers |-> {}]
  /\ piiFieldsMap = "nil"
  /\ sensitiveFieldsMap = "nil"
  /\ onceInit = "new"
  /\ stack = [t \in Threads |-> <<>>]
  /\ retBool = [t \in Threads |-> FALSE]
  /\ retMap = [t \in Threads |-> 0]
  /\ trace = [t \in Threads |-> {}]
  /\ last = [t \in Threads |-> NoCall]
  /\ before = [t \in Threads |-> NoCall]
  /\ audit = NoAudit

(***************************************************************************)
(* Spec: concurrent callers sharing the cache.                             *)
(***************************************************************************)
Init ==
  /\ InitProcess
  /\ heap \in SharedHeaps
  /\ calls = MaxCalls

Next ==
  \E t \in Threads :
    \/ /\ Idle(t)
       /\ \E l \in SharedLoggers, fieldName \in SharedNames :
            CallIsPIIFieldFast(t, l, fieldName)
    \/ /\ Idle(t)
       /\ \E l \in SharedLoggers, fieldName \in SharedNames :
            CallIsSensitiveFieldFast(t, l, fieldName)
    \/ /\ Idle(t)
       /\ \E l \in SharedLoggers : CallMaskSensitiveFieldsFast(t, l, 1)
    \/ CallClearFieldCache(t)
    \/ Classify(t)
    \/ Mask(t)
    \/ Clear(t)

Spec == Init /\ [][Next]_vars

(***************************************************************************)
(* SpecLive: the concurrent callers under a fair scheduler.  A goroutine   *)
(* inside a call keeps being scheduled; a caller need not start a call.    *)
(***************************************************************************)
Step(t) == Classify(t) \/ Mask(t) \/ Clear(t)

Fairness == \A t \in Threads : WF_vars(Step(t))

SpecLive == Init /\ [][Next]_vars /\ Fairness

(***************************************************************************)
(* SpecClassify: one caller classifies any name, then a spelling of it,    *)
(* with the same function and Logger.                                      *)
(***************************************************************************)
InitClassify ==
  /\ InitProcess
  /\ heap = <<>>
  /\ calls = 2

NextNames(t) ==
  IF last[t].fn = "none" THEN AllNames ELSE Variants(last[t].fieldName)

NextLoggers(t) == IF last[t].fn = "none" THEN Loggers ELSE {last[t].l}

NextClassify ==
  \E t \in {"t1"} :
    \/ /\ Idle(t)
       /\ last[t].fn \in {"none", "isPIIFieldFast"}
       /\ \E l \in NextLoggers(t), fieldName \in NextNames(t) :
            CallIsPIIFieldFast(t, l, fieldName)
    \/ /\ Idle(t)
       /\ last[t].fn \in {"none", "isSensitiveFieldFast"}
       /\ \E l \in NextLoggers(t), fieldName \in NextNames(t) :
            CallIsSensitiveFieldFast(t, l, fieldName)
    \/ Classify(t)

SpecClassify == InitClassify /\ [][NextClassify]_vars

(***************************************************************************)
(* SpecMask: one caller masks a field map, then masks the result again     *)
(* with the same Logger.                                                   *)
(***************************************************************************)
InitMask ==
  /\ InitProcess
  /\ heap \in InputHeaps
  /\ calls = 2

NextMask ==
  \E t \in {"t1"} :
    \/ /\ Idle(t)
       /\ last[t].fn = "none"
       /\ \E l \in Loggers : CallMaskSensitiveFieldsFast(t, l, 1)
    \/ /\ Idle(t)
       /\ last[t].fn = "maskSensitiveFieldsFast"
       /\ CallMaskSensitiveFieldsFast(t, last[t].l, last[t].retMap)
    \/ Classify(t)
    \/ Mask(t)

SpecMask == InitMask /\ [][NextMask]_vars

(***************************************************************************)
(* SpecOrder: two callers classify one name at the same time, each run of  *)
(* the range loop in an order of its own.                                  *)
(***************************************************************************)
zipper == <<"z","i","p","p","e","r">>

OrderNames == SampleNames \cup {zipper}

MaskingLoggers == {l \in Loggers : l.piiMode # SHOW_PII /\ l.sensitiveMode # SHOW_SENSITIVE}

ClassifyInOrder(t) ==
  \/ initializeFieldMaps_begin(t)
  \/ initializeFieldMaps_finish(t)
  \/ initializeFieldMaps_done(t)
  \/ isPIIFieldFast_mode(t)
  \/ isPIIFieldFast_rlock(t)
  \/ isPIIFieldFast_lookup(t)
  \/ isPIIFieldFast_compute_inOrder(t)
  \/ isPIIFieldFast_lock(t)
  \/ isPIIFieldFast_store(t)
  \/ isSensitiveFieldFast_mode(t)
  \/ isSensitiveFieldFast_rlock(t)
  \/ isSensitiveFieldFast_lookup(t)
  \/ isSensitiveFieldFast_compute_inOrder(t)
  \/ isSensitiveFieldFast_lock(t)
  \/ isSensitiveFieldFast_store(t)

\* The call the other caller has made, if it has made one.
CallOf(u) == IF stack[u] # <<>> THEN stack[u][1] ELSE last[u]

InitOrder ==
  /\ InitProcess
  /\ heap = <<>>
  /\ calls = 2

NextOrder ==
  \E t \in Threads : \E u \in Threads \ {t} :
    \/ /\ Idle(t)
       /\ CallOf(u).fn \in {"none", "isPIIFieldFast"}
       /\ \E l \in MaskingLoggers,
             fieldName \in IF CallOf(u).fn = "none" THEN OrderNames ELSE {CallOf(u).fieldName} :
            CallIsPIIFieldFast(t, l, fieldName)
    \/ /\ Idle(t)
       /\ CallOf(u).fn \in {"none", "isSensitiveFieldFast"}
       /\ \E l \in MaskingLoggers,
             fieldName \in IF CallOf(u).fn = "none" THEN OrderNames ELSE {CallOf(u).fieldName} :
            CallIsSensitiveFieldFast(t, l, fieldName)
    \/ ClassifyInOrder(t)

SpecOrder == InitOrder /\ [][NextOrder]_vars

(***************************************************************************)
(* Observations the properties are stated with.                            *)
(***************************************************************************)
\* The classification of a name against the static pattern sets alone.
PIIVerdict(fieldName) == isPII(fieldName, BuiltPIIFieldsMap)

SensitiveVerdict(fieldName) == isSensitive(fieldName, BuiltSensitiveFieldsMap)

\* The call in last[t] is over and nothing has started since.
Done(t, fn) ==
  /\ stack[t] = <<>>
  /\ last[t].fn = fn

\* The Logger l masks the category the classifier fn decides.
Masks(l, fn) ==
  IF fn = "isPIIFieldFast" THEN l.piiMode # SHOW_PII ELSE l.sensitiveMode # SHOW_SENSITIVE

CacheOf(fn) == IF fn = "isPIIFieldFast" THEN piiCache ELSE sensitiveCache

\* Two calls of the classifier fn, one after the other with one Logger that masks,
\* are over.
DoneTwo(t, fn) ==
  /\ Done(t, fn)
  /\ before[t].fn = fn
  /\ last[t].l = before[t].l
  /\ Masks(last[t].l, fn)

description == <<"d","e","s","c","r","i","p","t","i","o","n">>

trip == <<"t","r","i","p">>

ip_address == <<"i","p","_","a","d","d","r","e","s","s">>

zip == <<"z","i","p">>

DonePIIOn(t, fieldName) ==
  /\ Done(t, "isPIIFieldFast")
  /\ Masks(last[t].l, "isPIIFieldFast")
  /\ last[t].fieldName = fieldName

\* C5, as stated: with the default PII patterns and PII mode 'mask',
\* isPIIFieldFast returns false for description and for trip, and true for
\* ip_address and for zip.
C5_Original ==
  \A t \in Threads :
    /\ DonePIIOn(t, description) => last[t].retBool = FALSE
    /\ DonePIIOn(t, trip) => last[t].retBool = FALSE
    /\ DonePIIOn(t, ip_address) => last[t].retBool = TRUE
    /\ DonePIIOn(t, zip) => last[t].retBool = TRUE

\* C5, as amended: with the default PII patterns and PII mode 'mask',
\* isPIIFieldFast returns false for description, and true for trip (its suffix
\* "ip" is at least half of its length, rounded down), for ip_address and for zip.
C5_Amended ==
  \A t \in Threads :
    /\ DonePIIOn(t, description) => last[t].retBool = FALSE
    /\ DonePIIOn(t, trip) => last[t].retBool = TRUE
    /\ DonePIIOn(t, ip_address) => last[t].retBool = TRUE
    /\ DonePIIOn(t, zip) => last[t].retBool = TRUE

C5_Witness ==
  \E t \in Threads :
    /\ DonePIIOn(t, trip)
    /\ last[t].retBool = TRUE
    /\ Event("compute", "pii", trip) \in last[t].trace

PasswordSpellings ==
  { <<"p","a","s","s","w","o","r","d">>, <<"P","A","S","S","W","O","R","D">>,
    <<"P","a","s","s","w","o","r","d">> }

IsASCII(s) == \A i \in 1..Len(s) : s[i] # DotlessI

\* Both calls left their verdict in the cache, each under the spelling it was given.
CachedUnderOwnSpelling(t, fn) ==
  /\ {before[t].fieldName, last[t].fieldName} \subseteq DOMAIN CacheOf(fn)
  /\ CacheOf(fn)[before[t].fieldName] = before[t].retBool
  /\ CacheOf(fn)[last[t].fieldName] = last[t].retBool

\* C6, as stated: the verdict does not depend on the letter case of the name:
\* the verdict for a name equals the verdict for its lowercase, its uppercase and
\* any mixed-case spelling of it; password, PASSWORD and Password are sensitive,
\* each cached under its own spelling.
C6_Original ==
  \A t \in Threads : \A fn \in Classifiers :
    DoneTwo(t, fn) =>
      /\ last[t].fieldName \in Variants(before[t].fieldName) =>
           last[t].retBool = before[t].retBool
      /\ CachedUnderOwnSpelling(t, fn)
      /\ (fn = "isSensitiveFieldFast" /\ last[t].fieldName \in PasswordSpellings) =>
           last[t].retBool = TRUE

\* C6, as amended: the verdict depends on the name only through its lowercase
\* fold: two spellings with the same fold get the same verdict, so the verdict
\* for a name equals that for its lowercase, and for a name of ASCII runes also
\* that for its uppercase and any mixed-case spelling; password, PASSWORD and
\* Password are sensitive, each cached under its own spelling.
C6_Amended ==
  \A t \in Threads : \A fn \in Classifiers :
    DoneTwo(t, fn) =>
      /\ ToLower(last[t].fieldName) = ToLower(before[t].fieldName) =>
           last[t].retBool = before[t].retBool
      /\ last[t].fieldName = ToLower(before[t].fieldName) =>
           last[t].retBool = before[t].retBool
      /\ (IsASCII(before[t].fieldName) /\ last[t].fieldName \in Variants(before[t].fieldName)) =>
           last[t].retBool = before[t].retBool
      /\ CachedUnderOwnSpelling(t, fn)
      /\ (fn = "isSensitiveFieldFast" /\ last[t].fieldName \in PasswordSpellings) =>
           last[t].retBool = TRUE

C6_Witness ==
  \E t \in Threads :
    /\ DoneTwo(t, "isSensitiveFieldFast")
    /\ before[t].fieldName = <<"P","a","s","s","w","o","r","d">>
    /\ last[t].fieldName = <<"P","A","S","S","W","O","R","D">>
    /\ before[t].retBool = TRUE
    /\ last[t].retBool = TRUE
    /\ CachedUnderOwnSpelling(t, "isSensitiveFieldFast")

(***************************************************************************)
(* The masker.                                                             *)
(***************************************************************************)
DoneMask(t) == Done(t, "maskSensitiveFieldsFast")

ShowsBoth(l) == l.sensitiveMode = SHOW_SENSITIVE /\ l.piiMode = SHOW_PII

\* What classify(key, category) gives under the modes of l.
ClassifiesPII(l, key) == l.piiMode # SHOW_PII /\ PIIVerdict(key)

ClassifiesSensitive(l, key) == l.sensitiveMode # SHOW_SENSITIVE /\ SensitiveVerdict(key)

RECURSIVE MaskedLike(_, _, _, _)
\* The map at out has the keys of the map at in, each entry decided in the order
\* PII, sensitive, nested map, copy.
MaskedLike(h, l, in, out) ==
  /\ DOMAIN h[out] = DOMAIN h[in]
  /\ \A key \in DOMAIN h[in] :
       IF ClassifiesPII(l, key) THEN h[out][key] = Leaf(l.piiMaskString)
       ELSE IF ClassifiesSensitive(l, key) THEN h[out][key] = Leaf(l.maskString)
       ELSE IF h[in][key].kind = "map"
         THEN /\ h[out][key].kind = "map"
              /\ MaskedLike(h, l, h[in][key].ref, h[out][key].ref)
         ELSE h[out][key] = h[in][key]

user == <<"u","s","e","r">>

id == <<"i","d">>

\* The caller passed ExampleHeap and t masked its root with a Logger that masks PII.
DoneExample(t) ==
  /\ DoneMask(t)
  /\ last[t].fields = 1
  /\ Len(heap) >= 2
  /\ SubSeq(heap, 1, 2) = ExampleHeap
  /\ last[t].l.piiMode # SHOW_PII

\* C1: for a non-empty field map and at least one mode 'mask', the result has
\* exactly the keys of the input, and each entry is the PII mask if the key
\* classifies as PII, else the generic mask if it classifies as sensitive, else
\* the same masking of the nested map if the value is one, else the input value;
\* the example map keeps note, id and the nesting under user and masks only email.
C1_MaskedEntries ==
  \A t \in Threads :
    /\ (DoneMask(t) /\ ~ShowsBoth(last[t].l) /\ DOMAIN heap[last[t].fields] # {}) =>
         MaskedLike(heap, last[t].l, last[t].fields, last[t].retMap)
    /\ DoneExample(t) =>
         /\ DOMAIN heap[last[t].retMap] = {user, note}
         /\ heap[last[t].retMap][note] = Leaf("hi")
         /\ heap[last[t].retMap][user].kind = "map"
         /\ heap[heap[last[t].retMap][user].ref] =
              (email :> Leaf(last[t].l.piiMaskString)) @@ (id :> Leaf("7"))

C1_Witness ==
  \E t \in Threads :
    /\ DoneExample(t)
    /\ before[t].fn = "none"
    /\ heap[heap[last[t].retMap][user].ref][email] = Leaf("[PII]")
    /\ heap[2][email] = Leaf("a@b.com")

RECURSIVE DeepEq(_, _, _)
\* The maps at a and b have the same keys and the same values at every level.
DeepEq(h, a, b) ==
  \/ a = b
  \/ /\ DOMAIN h[a] = DOMAIN h[b]
     /\ \A key \in DOMAIN h[a] :
          IF h[a][key].kind = "map" /\ h[b][key].kind = "map"
            THEN DeepEq(h, h[a][key].ref, h[b][key].ref)
            ELSE h[a][key] = h[b][key]

SameValue(h, x, y) ==
  IF x.kind = "map" /\ y.kind = "map" THEN DeepEq(h, x.ref, y.ref) ELSE x = y

DoneShowPII(t) ==
  /\ DoneMask(t)
  /\ last[t].l.piiMode = SHOW_PII
  /\ last[t].l.sensitiveMode # SHOW_SENSITIVE

\* C2, as stated: with PII mode 'show' and sensitive mode 'mask', the value of
\* every key that classifies as PII is left unchanged and the value of every key
\* that classifies as sensitive is the generic mask, also for a key that matches
\* both a PII and a sensitive pattern.
C2_Original ==
  \A t \in Threads :
    DoneShowPII(t) =>
      \A key \in DOMAIN heap[last[t].fields] :
        /\ PIIVerdict(key) =>
             SameValue(heap, heap[last[t].retMap][key], heap[last[t].fields][key])
        /\ SensitiveVerdict(key) =>
             heap[last[t].retMap][key] = Leaf(last[t].l.maskString)

RECURSIVE ShowPIIMasked(_, _, _, _)
ShowPIIMasked(h, l, in, out) ==
  /\ DOMAIN h[out] = DOMAIN h[in]
  /\ \A key \in DOMAIN h[in] :
       /\ SensitiveVerdict(key) => h[out][key] = Leaf(l.maskString)
       /\ (PIIVerdict(key) /\ ~SensitiveVerdict(key) /\ h[in][key].kind = "leaf") =>
            h[out][key] = h[in][key]
       /\ (~SensitiveVerdict(key) /\ h[in][key].kind = "map") =>
            /\ h[out][key].kind = "map"
            /\ ShowPIIMasked(h, l, h[in][key].ref, h[out][key].ref)

\* C2, as amended: with PII mode 'show' and sensitive mode 'mask', at every
\* level the value of every key that classifies as sensitive is the generic mask,
\* also when the key matches a PII pattern too; the leaf value of a key that
\* classifies as PII and not as sensitive is left unchanged, and a nested map
\* under a key that is not sensitive is masked in the same way.
C2_Amended ==
  \A t \in Threads :
    DoneShowPII(t) => ShowPIIMasked(heap, last[t].l, last[t].fields, last[t].retMap)

C2_Witness ==
  \E t \in Threads :
    /\ DoneShowPII(t)
    /\ DOMAIN heap[last[t].fields] = {email, passport}
    /\ heap[last[t].retMap][email] = Leaf("v")
    /\ heap[last[t].retMap][passport] = Leaf("***")
    /\ PIIVerdict(passport)

\* The second of two maskings by one Logger, of the result of the first.
DoneAgain(t) ==
  /\ DoneMask(t)
  /\ before[t].fn = "maskSensitiveFieldsFast"
  /\ last[t].l = before[t].l
  /\ last[t].fields = before[t].retMap

\* C7: masking is idempotent: masking the result of a masking again, with the
\* same modes and mask strings, gives a map with the same keys and the same
\* values at every level.
C7_Idempotent ==
  \A t \in Threads :
    DoneAgain(t) => DeepEq(heap, last[t].retMap, before[t].retMap)

C7_Witness ==
  \E t \in Threads :
    /\ DoneAgain(t)
    /\ last[t].retMap # before[t].retMap
    /\ before[t].retMap # before[t].fields
    /\ \E key \in DOMAIN heap[last[t].retMap] :
         /\ heap[last[t].retMap][key].kind = "map"
         /\ heap[heap[last[t].retMap][key].ref] = (email :> Leaf("[PII]"))
    /\ piiCache # <<>>

MaskFrames == {"maskSensitiveFieldsFast"}

\* The maps the maskings in progress are filling.
Building ==
  UNION { {stack[t][i].maskedFields :
             i \in {j \in 1..Len(stack[t]) : stack[t][j].fn \in MaskFrames}} :
          t \in Threads } \ {0}

RECURSIVE Reach(_, _)
\* The map at a and every nested map reachable from it.
Reach(h, a) ==
  {a} \cup UNION {Reach(h, h[a][key].ref) : key \in {k \in DOMAIN h[a] : h[a][k].kind = "map"}}

\* No masking in progress fills its input or a map nested in it.
InputsNotBuilt ==
  \A t \in Threads : \A i \in 1..Len(stack[t]) :
    (stack[t][i].fn \in MaskFrames /\ stack[t][i].maskedFields # 0) =>
      stack[t][i].maskedFields \notin Reach(heap, stack[t][i].fields)

\* C8: maskSensitiveFieldsFast never mutates its input: the maps a masking fills
\* are never its input map or a map nested in it, and no step changes the keys
\* or values of any other map, under every combination of modes.
C8_InputUnchanged ==
  /\ []InputsNotBuilt
  /\ [][\A a \in DOMAIN heap : a \notin Building => heap'[a] = heap[a]]_vars

C8_Witness ==
  \E t \in Threads :
    /\ DoneMask(t)
    /\ last[t].retMap # last[t].fields
    /\ \E key \in DOMAIN heap[last[t].fields] :
         /\ heap[last[t].fields][key] = Leaf("v")
         /\ heap[last[t].retMap][key] = Leaf("***")

\* C9: if both modes are 'show' or the input map is empty, the call returns the
\* input map itself, classifies nothing and leaves the caches (and the lookup
\* maps) as they were; in every other case it returns a map other than the input.
C9_Identity ==
  \A t \in Threads :
    DoneMask(t) =>
      IF ShowsBoth(last[t].l) \/ DOMAIN heap[last[t].fields] = {}
        THEN /\ last[t].retMap = last[t].fields
             /\ last[t].trace = {}
             /\ piiCache = <<>>
             /\ sensitiveCache = <<>>
             /\ onceInit = "new"
        ELSE last[t].retMap # last[t].fields

C9_Witness ==
  \E t \in Threads :
    /\ DoneMask(t)
    /\ ShowsBoth(last[t].l)
    /\ DOMAIN heap[last[t].fields] = {email, token}
    /\ last[t].retMap = last[t].fields
    /\ Len(heap) = 1

(***************************************************************************)
(* The classifiers and the cache under concurrent callers.                 *)
(***************************************************************************)
\* The Logger l masks the category cat.
MasksCategory(l, cat) ==
  IF cat = "pii" THEN l.piiMode # SHOW_PII ELSE l.sensitiveMode # SHOW_SENSITIVE

\* The events of tr that read, compute for or write a cache.
CacheEvents(tr) == {e \in tr : e.what \in {"lookup", "compute", "store"}}

\* C3: a classify call made while the mode of its category is 'show' returns
\* false without reading or writing the cache of that category: it never gets
\* past its mode test, and every lookup, computation and store of a call, alone
\* or inside a masking, interleaved with any other calls, is for a category the
\* call's Logger masks.
C3_ShowSkipsCache ==
  \A t \in Threads :
    /\ \A i \in 1..Len(stack[t]) :
         (stack[t][i].fn \in Classifiers /\ ~Masks(stack[t][i].l, stack[t][i].fn)) =>
           stack[t][i].pc = "mode"
    /\ \A fn \in Classifiers :
         (Done(t, fn) /\ ~Masks(last[t].l, fn)) =>
           /\ last[t].retBool = FALSE
           /\ CacheEvents(last[t].trace) = {}
    /\ stack[t] # <<>> /\ stack[t][1].fn # "ClearFieldCache" =>
         \A e \in CacheEvents(trace[t]) : MasksCategory(stack[t][1].l, e.cat)
    /\ last[t].fn \notin {"none", "ClearFieldCache"} =>
         \A e \in CacheEvents(last[t].trace) : MasksCategory(last[t].l, e.cat)

C3_Witness ==
  \E t \in Threads :
    /\ Done(t, "isPIIFieldFast")
    /\ last[t].l.piiMode = SHOW_PII
    /\ last[t].fieldName = email
    /\ last[t].retBool = FALSE
    /\ email \in DOMAIN piiCache
    /\ piiCache[email] = TRUE

\* C4: every classify call made in mask mode, alone or inside a masking, returns
\* the classification of its name against the static pattern set, whether the
\* cache served it or the call computed it, whatever the other callers did.
C4_SameVerdict ==
  \A t \in Threads :
    /\ (Done(t, "isPIIFieldFast") /\ Masks(last[t].l, "isPIIFieldFast")) =>
         last[t].retBool = PIIVerdict(last[t].fieldName)
    /\ (Done(t, "isSensitiveFieldFast") /\ Masks(last[t].l, "isSensitiveFieldFast")) =>
         last[t].retBool = SensitiveVerdict(last[t].fieldName)
    /\ (InFrame(t, "maskSensitiveFieldsFast", "pii") /\ Top(t).l.piiMode # SHOW_PII) =>
         retBool[t] = PIIVerdict(Top(t).key)
    /\ (InFrame(t, "maskSensitiveFieldsFast", "sensitive")
          /\ Top(t).l.sensitiveMode # SHOW_SENSITIVE) =>
         retBool[t] = SensitiveVerdict(Top(t).key)

\* A verdict served from the cache, which another caller filled.
C4_Witness ==
  \E t \in Threads :
    /\ Done(t, "isPIIFieldFast")
    /\ Masks(last[t].l, "isPIIFieldFast")
    /\ last[t].fieldName = email
    /\ last[t].retBool = TRUE
    /\ Event("lookup", "pii", email) \in last[t].trace
    /\ Event("compute", "pii", email) \notin last[t].trace

\* The thread is inside a section of fieldCache.mu.
InSection(u) ==
  /\ stack[u] # <<>>
  /\ \/ Top(u).fn \in Classifiers /\ Top(u).pc \in {"lookup", "store"}
     \/ Top(u).fn = "ClearFieldCache" /\ Top(u).pc \in {"piiCache", "sensitiveCache", "unlock"}

\* C10: ClearFieldCache replaces both caches in one exclusive section: from its
\* Lock to its Unlock it is the writer, no other thread holds the lock or is
\* inside a section, so none sees one cache cleared and the other not; and when
\* it is about to release the lock both caches are empty.
C10_ClearAtomic ==
  \A t \in Threads :
    /\ (stack[t] # <<>> /\ Top(t).fn = "ClearFieldCache"
          /\ Top(t).pc \in {"piiCache", "sensitiveCache", "unlock"}) =>
         /\ mu.writer = t
         /\ mu.readers = {}
         /\ \A u \in Threads \ {t} : ~InSection(u)
    /\ InFrame(t, "ClearFieldCache", "unlock") =>
         /\ piiCache = <<>>
         /\ sensitiveCache = <<>>

\* One cache is cleared and the other not yet, while another caller waits for the lock.
C10_Witness ==
  \E t \in Threads : \E u \in Threads \ {t} :
    /\ InFrame(t, "ClearFieldCache", "sensitiveCache")
    /\ piiCache = <<>>
    /\ sensitiveCache # <<>>
    /\ stack[u] # <<>>
    /\ Top(u).fn \in Classifiers
    /\ Top(u).pc \in {"rlock", "lock"}

(***************************************************************************)
(* The cache across a clear.                                               *)
(***************************************************************************)
\* The last completed call of t looked the name up in the cache of cat and was
\* served from it.
ServedFromCache(t, cat, fieldName) ==
  /\ Event("lookup", cat, fieldName) \in last[t].trace
  /\ Event("compute", cat, fieldName) \notin last[t].trace

\* C11: after a clear the caches hold no entry whose verdict was computed before
\* the clear, whatever calls were in flight when the clear ran, so no call is
\* served from the cache a verdict that predates the clear.
C11_NoPreClearEntry ==
  /\ audit.stale = {}
  /\ \A t \in Threads : \A e \in audit.stale :
       stack[t] = <<>> => ~ServedFromCache(t, e[1], e[2])

(***************************************************************************)
(* Termination.                                                            *)
(***************************************************************************)
HoldsLock(t) == mu.writer = t \/ t \in mu.readers

Max(S) == CHOOSE x \in S : \A y \in S : y <= x

RECURSIVE Depth(_, _)
\* The nesting depth of the field map at a.
Depth(h, a) ==
  1 + Max({0} \cup {Depth(h, h[a][key].ref) : key \in {k \in DOMAIN h[a] : h[a][k].kind = "map"}})

\* The calls of maskSensitiveFieldsFast in progress in t, one inside the other.
MaskLevels(t) ==
  Cardinality({i \in 1..Len(stack[t]) : stack[t][i].fn = "maskSensitiveFieldsFast"})

\* C12: under fair scheduling every call eventually returns (so no deadlock); a
\* thread holds the cache lock only inside a section, never while it waits for
\* the lock or for the once-only build; and the recursion of
\* maskSensitiveFieldsFast is never deeper than the nesting of its input.
C12_EveryCallReturns ==
  /\ \A t \in Threads : (stack[t] # <<>>) ~> (stack[t] = <<>>)
  /\ [](\A t \in Threads : HoldsLock(t) <=> InSection(t))
  /\ [](\A t \in Threads :
          (stack[t] # <<>> /\ stack[t][1].fn = "maskSensitiveFieldsFast") =>
            MaskLevels(t) <= Depth(heap, stack[t][1].fields))

\* A caller waits for the write lock while the other reads the cache, and a
\* masking is as deep in its recursion as its input is nested.
C12_Witness ==
  \E t \in Threads : \E u \in Threads \ {t} :
    /\ InClassifier(t, "lock")
    /\ u \in mu.readers
    /\ stack[t][1].fn = "maskSensitiveFieldsFast"
    /\ MaskLevels(t) = 2
    /\ Depth(heap, stack[t][1].fields) = 2

(***************************************************************************)
(* The PII verdict against its reference.                                  *)
(***************************************************************************)
ipsum == <<"i","p","s","u","m">>

strip == <<"s","t","r","i","p">>

\* The reference for one pattern p the folded name n contains: a prefix or a
\* suffix counts when it covers at least half of n, 2 * len(p) >= len(n).
ReferenceAccepted(n, p) ==
  \/ n = p
  \/ len(p) >= 3
  \/ HasPrefix(n, p \o <<"_">>)
  \/ HasSuffix(n, <<"_">> \o p)
  \/ Contains(n, <<"_">> \o p \o <<"_">>)
  \/ (HasPrefix(n, p) /\ 2 * len(p) >= len(n))
  \/ (HasSuffix(n, p) /\ 2 * len(p) >= len(n))

PIIReference(n) ==
  \/ n \in BuiltPIIFieldsMap
  \/ \E p \in BuiltPIIFieldsMap : Contains(n, p) /\ ReferenceAccepted(n, p)

\* C13: in mask mode the PII verdict of every field name equals the reference
\* applied to its folded form, with the prefix and suffix rules requiring
\* 2 * len(p) >= len(n).
C13_MatchesReference ==
  \A t \in Threads :
    (Done(t, "isPIIFieldFast") /\ Masks(last[t].l, "isPIIFieldFast")) =>
      last[t].retBool = PIIReference(ToLower(last[t].fieldName))

(***************************************************************************)
(* Computations between two clears.                                        *)
(***************************************************************************)
\* The thread has computed a verdict for the name with the classifier fn and has
\* not yet stored it.
HoldsVerdict(t, fn, fieldName) ==
  /\ stack[t] # <<>>
  /\ Top(t).fn = fn
  /\ Top(t).pc \in {"lock", "store"}
  /\ Top(t).fieldName = fieldName

\* C14: between two clears the verdict of a name is computed at most once for a
\* category: no name is computed again while the cache of the category has not
\* been replaced, and of two concurrent calls that miss on one name at most one
\* computes.
C14_ComputedOnce ==
  /\ audit.twice = {}
  /\ \A t \in Threads : \A u \in Threads \ {t} : \A fn \in Classifiers :
       \A fieldName \in SharedNames \cup MaskKeys :
         ~(/\ HoldsVerdict(t, fn, fieldName)
           /\ HoldsVerdict(u, fn, fieldName)
           /\ audit.preClear = {})

(***************************************************************************)
(* The contents of the caches.                                             *)
(***************************************************************************)
\* Every entry of cache is still in cache2, with its value.
Kept(cache, cache2) ==
  \A f \in DOMAIN cache : f \in DOMAIN cache2 /\ cache2[f] = cache[f]

\* The step is the replacement of a cache by the thread of ClearFieldCache at pc.
Replacing(pc) == \E t \in Threads : InFrame(t, "ClearFieldCache", pc) /\ mu.writer = t

\* C15: in every reachable state every entry of the PII cache holds the pure PII
\* classification of its name and every entry of the sensitive cache the pure
\* sensitive classification, whatever the interleaving and with racing writers;
\* and an entry is removed only by the replacement of its cache in
\* ClearFieldCache, and never changes value.
C15_CacheConsistent ==
  /\ [](/\ \A f \in DOMAIN piiCache : piiCache[f] = PIIVerdict(f)
        /\ \A f \in DOMAIN sensitiveCache : sensitiveCache[f] = SensitiveVerdict(f))
  /\ [][/\ Kept(piiCache, piiCache') \/ (Replacing("piiCache") /\ piiCache' = <<>>)
        /\ Kept(sensitiveCache, sensitiveCache')
             \/ (Replacing("sensitiveCache") /\ sensitiveCache' = <<>>)]_vars

\* Racing writers: the cache holds the verdict of a name and another thread is
\* about to store the verdict it computed for the same name.
C15_Witness ==
  \E t \in Threads :
    /\ InFrame(t, "isSensitiveFieldFast", "store")
    /\ Top(t).fieldName \in DOMAIN sensitiveCache
    /\ sensitiveCache[Top(t).fieldName] = Top(t).isSensitive
    /\ piiCache # <<>>

(***************************************************************************)
(* The lock around the cache maps.                                         *)
(***************************************************************************)
\* The next step of t reads a cache map.
Reading(t) == InClassifier(t, "lookup")

\* The next step of t stores into a cache map or replaces one.
Writing(t) ==
  \/ InClassifier(t, "store")
  \/ InFrame(t, "ClearFieldCache", "piiCache")
  \/ InFrame(t, "ClearFieldCache", "sensitiveCache")

\* C16: every read of a cache map is made holding the read lock and every store
\* and replacement holding the write lock, so no thread stores into or replaces
\* a cache map while another reads or writes one; readers may share the lock;
\* and the classification is computed with no lock held.
C16_LockDiscipline ==
  \A t \in Threads :
    /\ Reading(t) => (t \in mu.readers /\ mu.writer = NoThread)
    /\ Writing(t) =>
         /\ mu.writer = t
         /\ mu.readers = {}
         /\ \A u \in Threads \ {t} : ~Reading(u) /\ ~Writing(u)
    /\ InClassifier(t, "compute") => ~HoldsLock(t)

\* Two readers inside the shared section at once, reading different caches.
C16_Witness ==
  /\ mu.readers = Threads
  /\ \E t \in Threads : \E u \in Threads \ {t} :
       /\ InFrame(t, "isPIIFieldFast", "lookup")
       /\ InFrame(u, "isSensitiveFieldFast", "lookup")

(***************************************************************************)
(* The once-only build of the lookup maps.                                 *)
(***************************************************************************)
\* The thread is past initializeFieldMaps in a classifier.
PastInit(t) ==
  /\ stack[t] # <<>>
  /\ Top(t).fn \in Classifiers
  /\ Top(t).pc \in {"rlock", "lookup", "compute", "lock", "store"}

Builders == {t \in Threads : InClassifier(t, "build")}

\* C17: the lookup maps are built once: the build starts only from a fresh
\* onceInit and ends once, one thread at most runs it, no thread goes on to the
\* cache and the lookup maps before the build is over and both maps are built,
\* and once the build is over no step changes the lookup maps.
C17_BuiltOnce ==
  /\ [](/\ Cardinality(Builders) <= 1
        /\ (Builders # {}) <=> (onceInit = "running")
        /\ (onceInit = "new") => (piiFieldsMap = "nil" /\ sensitiveFieldsMap = "nil")
        /\ \A t \in Threads :
             PastInit(t) =>
               /\ onceInit = "done"
               /\ piiFieldsMap = "built"
               /\ sensitiveFieldsMap = "built")
  /\ [][/\ onceInit' # onceInit =>
             \/ onceInit = "new" /\ onceInit' = "running"
             \/ onceInit = "running" /\ onceInit' = "done"
        /\ piiFieldsMap' # piiFieldsMap => (onceInit = "new" /\ piiFieldsMap' = "built")
        /\ sensitiveFieldsMap' # sensitiveFieldsMap =>
             (onceInit = "running" /\ sensitiveFieldsMap' = "built")
        /\ onceInit = "done" => UNCHANGED registry]_vars

\* Two first calls at once: one thread is in the build, with one map built and
\* the other not yet, and the other thread waits at initializeFieldMaps.
C17_Witness ==
  \E t \in Threads : \E u \in Threads \ {t} :
    /\ InClassifier(t, "build")
    /\ InClassifier(u, "init")
    /\ piiFieldsMap = "built"
    /\ sensitiveFieldsMap = "nil"

(***************************************************************************)
(* The order of the range loop.                                            *)
(***************************************************************************)
\* The last call of t was of fn on the name and computed its verdict.
Computed(t, fn, fieldName) ==
  /\ Done(t, fn)
  /\ last[t].fieldName = fieldName
  /\ \E e \in last[t].trace : e.what = "compute" /\ e.fieldName = fieldName

\* C18: the verdict does not depend on the order in which the range loop visits
\* the lookup map: two runs of a classifier on one name, each visiting the keys
\* in an order of its own and breaking at the first key that decides, return the
\* same boolean and cache it, in each category; it is the verdict of the name.
C18_OrderIndependent ==
  \A fn \in Classifiers : \A fieldName \in OrderNames :
    \A t \in Threads :
      Computed(t, fn, fieldName) =>
        /\ fieldName \in DOMAIN CacheOf(fn)
        /\ CacheOf(fn)[fieldName] = last[t].retBool
        /\ last[t].retBool =
             (IF fn = "isPIIFieldFast" THEN PIIVerdict(fieldName) ELSE SensitiveVerdict(fieldName))
        /\ \A u \in Threads : Computed(u, fn, fieldName) => last[u].retBool = last[t].retBool

\* Two runs on zipper have both computed: the name contains the pattern "zip",
\* which the guard accepts, and the pattern "ip", which it rejects, so the two
\* orders of these break the loop at different keys.
C18_Witness ==
  /\ \A t \in Threads : Computed(t, "isPIIFieldFast", zipper) /\ last[t].retBool = TRUE
  /\ Cardinality({pattern \in BuiltPIIFieldsMap :
                    Contains(zipper, pattern) /\ PIIPatternAccepted(zipper, pattern)}) = 1
  /\ Cardinality({pattern \in BuiltPIIFieldsMap :
                    Contains(zipper, pattern) /\ ~PIIPatternAccepted(zipper, pattern)}) = 1

(***************************************************************************)
(* The depth of the result.                                                *)
(***************************************************************************)
\* The keys of the map at a that hold a nested map and that l masks.
MaskedSubtrees(h, l, a) ==
  {key \in DOMAIN h[a] :
     h[a][key].kind = "map" /\ (ClassifiesPII(l, key) \/ ClassifiesSensitive(l, key))}

RECURSIVE KeptDepth(_, _, _)
\* The nesting depth of the map at a once every nested map under a key that l
\* masks is taken for a leaf.
KeptDepth(h, l, a) ==
  1 + Max({0} \cup {KeptDepth(h, l, h[a][key].ref) :
                      key \in {k \in DOMAIN h[a] : h[a][k].kind = "map"} \ MaskedSubtrees(h, l, a)})

\* C19 as stated: the map returned by maskSensitiveFieldsFast is at least as
\* deep as the input map, for every input and every combination of modes, also
\* when a key that classifies as PII or sensitive holds a nested field map.
C19_Original ==
  \A t \in Threads :
    DoneMask(t) => Depth(heap, last[t].retMap) >= Depth(heap, last[t].fields)

\* C19, amended: the map returned by maskSensitiveFieldsFast is never deeper
\* than the input map; its depth is that of the input with every nested map
\* under a key that classifies as PII or sensitive counted as a leaf, so it is
\* the depth of the input when no such key holds a nested map.
C19_Amended ==
  \A t \in Threads :
    DoneMask(t) =>
      /\ Depth(heap, last[t].retMap) <= Depth(heap, last[t].fields)
      /\ Depth(heap, last[t].retMap) = KeptDepth(heap, last[t].l, last[t].fields)

\* A first call masked a map whose PII key email holds a nested map: the input
\* has depth 2, the result depth 1.
C19_Witness ==
  \E t \in Threads :
    /\ DoneMask(t)
    /\ before[t].fn = "none"
    /\ email \in MaskedSubtrees(heap, last[t].l, last[t].fields)
    /\ Depth(heap, last[t].fields) = 2
    /\ Depth(heap, last[t].retMap) = 1
    /\ heap[last[t].retMap][email] = Leaf(last[t].l.piiMaskString)

(***************************************************************************)
(* The keys a masking classifies.                                          *)
(***************************************************************************)
RECURSIVE Visited(_, _, _)
\* The keys the loop of maskSensitiveFieldsFast comes to in the map at a: its own
\* keys, and those of the nested maps under keys that l does not mask.
Visited(h, l, a) ==
  DOMAIN h[a] \cup
    UNION {Visited(h, l, h[a][key].ref) :
             key \in {k \in DOMAIN h[a] : h[a][k].kind = "map"} \ MaskedSubtrees(h, l, a)}

\* C20: inside maskSensitiveFieldsFast the PII verdict short-circuits the rest
\* for a key: for a key that classifies as PII under the modes, the call makes no
\* sensitive classification (no read, computation or write of the sensitive
\* cache) for it; the keys of a nested map under a key that classifies as PII or
\* sensitive are neither classified nor cached, unless the loop comes to the same
\* name elsewhere; so the sensitive cache holds entries only for keys that do not
\* classify as PII under the modes.
C20_PIIShortCircuit ==
  \A t \in Threads :
    /\ DoneMask(t) =>
         \A e \in last[t].trace :
           /\ e.fieldName \in Visited(heap, last[t].l, last[t].fields)
           /\ e.cat = "sensitive" => ~ClassifiesPII(last[t].l, e.fieldName)
    /\ CallOf(t).fn = "maskSensitiveFieldsFast" =>
         /\ \A key \in DOMAIN sensitiveCache : ~ClassifiesPII(CallOf(t).l, key)
         /\ (DOMAIN piiCache \cup DOMAIN sensitiveCache) \subseteq Visited(heap, CallOf(t).l, 1)

\* A first call masked {email: {token: v}, note: v} with both modes 'mask': email
\* is classified as PII and cached, note is classified in both categories, and
\* token, under email, is in no event and in no cache.
C20_Witness ==
  \E t \in Threads :
    /\ DoneMask(t)
    /\ before[t].fn = "none"
    /\ last[t].fields = 1
    /\ DOMAIN heap[1] = {email, note}
    /\ email \in MaskedSubtrees(heap, last[t].l, 1)
    /\ token \in DOMAIN heap[heap[1][email].ref]
    /\ last[t].l.sensitiveMode # SHOW_SENSITIVE
    /\ Event("store", "pii", email) \in last[t].trace
    /\ ~\E e \in last[t].trace : e.cat = "sensitive" /\ e.fieldName = email
    /\ ~\E e \in last[t].trace : e.fieldName = token
    /\ DOMAIN sensitiveCache = {note}
    /\ DOMAIN piiCache = {email, note}
=============================================================================
